---------------------------- MODULE Spec2Model ----------------------------
(***************************************************************************)
(* A model of src/main.py: a Flask application that pulls three metric     *)
(* types from the Oura REST API, merges them into one JSON document on     *)
(* disk (DATA_FILE), stamps LAST_UPDATED_FILE and serves four routes.      *)
(*                                                                         *)
(* Python values are modelled as follows.                                  *)
(*   - A JSON object that is a bucket is a record [present, data, meta]:   *)
(*     "data" is the list under the bucket's "data" key, "meta" stands for *)
(*     every other key of the upstream response.  The object {} (no keys,  *)
(*     falsy in Python) is the record with present = FALSE.                *)
(*   - A dict keyed by metric type is a function over TypeSet whose value  *)
(*     is NoBucket where the key is missing.  Key order is not modelled.   *)
(*   - A file is [exists, text]; the text of DATA_FILE is a sequence of    *)
(*     JSON tokens, written by json_dump and read back by json_load.       *)
(*   - A response is [code, what, oura_data, last_updated].                *)
(* A request is served by a thread p: thread 1 alone under Spec and        *)
(* SpecLive (requests one after the other), threads 1 and 2 under SpecConc *)
(* (app.run serves each request in a thread of its own).                   *)
(***************************************************************************)
EXTENDS Naturals, Sequences, FiniteSets

VARIABLES
  OURA_API_KEY,       \* whether the environment sets the key (line 17)
  DATA_FILE,          \* /tmp/oura_data.json (line 19)
  LAST_UPDATED_FILE,  \* /tmp/last_updated.txt (line 20)
  pc,                 \* where each thread stands in its handler
  route,              \* the route each thread is serving
  fetched,            \* what the upstream answered to each type's GET
  new_data,           \* fetch_and_store_data's new_data (line 172)
  existing_data,      \* update_data's existing_data (line 157), after the loop
  offset,             \* the position of store_data's file object f (line 133)
  resp,               \* the response each thread returned last
  calls,              \* the I/O calls of the handler being served, in order
  started,            \* requests accepted so far under SpecConc
  overlapped          \* history: two update_data calls have overlapped

vars == <<OURA_API_KEY, DATA_FILE, LAST_UPDATED_FILE, pc, route, fetched,
          new_data, existing_data, offset, resp, calls, started, overlapped>>

---------------------------------------------------------------------------
(* Bounds *)

\* The records the store may grow to hold, over all its buckets.
MaxStored == 4

\* Tokens the file object hands to the operating system in one write
\* (Python's buffer size, scaled to the token texts of the model).
ChunkSize == 8

\* Requests the two threads of SpecConc accept in all.
MaxRequests == 2

Threads == {1, 2}

---------------------------------------------------------------------------
(* Values *)

data_types == <<"daily_activity", "daily_readiness", "daily_sleep">>

TypeSet == {data_types[i] : i \in 1..Len(data_types)}

Records == {"r1", "r2"}

Metas == {"m1", "m2"}

NoBucket == [present |-> FALSE, data |-> <<>>, meta |-> "none"]

Bucket(d, m) == [present |-> TRUE, data |-> d, meta |-> m]

EmptyDict == [t \in TypeSet |-> NoBucket]

\* What the upstream API may answer to one GET: an error (a transport
\* failure or a non-success status), the empty object, or a bucket.
UpstreamAnswers ==
  { [kind |-> "error", json |-> NoBucket],
    [kind |-> "ok",    json |-> NoBucket],
    [kind |-> "ok",    json |-> Bucket(<<"r1">>, "m1")],
    [kind |-> "ok",    json |-> Bucket(<<"r2", "r1">>, "m2")] }

NoAnswers == [t \in TypeSet |-> [kind |-> "none", json |-> NoBucket]]

\* The answers the threads of SpecConc draw from.
ConcAnswers ==
  { [kind |-> "error", json |-> NoBucket],
    [kind |-> "ok",    json |-> Bucket(<<"r1">>, "m1")] }

\* What datetime.now().strftime(...) may give.
Stamps == {"t1", "t2"}

NoFile == [exists |-> FALSE, text |-> <<>>]

File(text) == [exists |-> TRUE, text |-> text]

Response(code, what, data, last) ==
  [code |-> code, what |-> what, oura_data |-> data, last_updated |-> last]

NoResponse == Response(0, "none", EmptyDict, "")

Min(a, b) == IF a < b THEN a ELSE b

---------------------------------------------------------------------------
(* json.dump and json.load on the documents of the store *)

DumpBucket(b) ==
  <<"{", "data", "[">> \o b.data \o <<"]", "meta", b.meta, "}">>

RECURSIVE DumpItems(_, _)
DumpItems(d, i) ==
  IF i > Len(data_types) THEN <<>>
  ELSE LET t == data_types[i]
       IN  (IF d[t].present THEN <<t>> \o DumpBucket(d[t]) ELSE <<>>)
             \o DumpItems(d, i + 1)

json_dump(d) == <<"{">> \o DumpItems(d, 1) \o <<"}">>

Tok(text, i) == IF i >= 1 /\ i <= Len(text) THEN text[i] ELSE "EOF"

DecodeError == [ok |-> FALSE, next |-> 0, data |-> <<>>,
                bucket |-> NoBucket, value |-> EmptyDict]

RECURSIVE ParseList(_, _, _)
ParseList(text, i, acc) ==
  IF Tok(text, i) \in Records
    THEN ParseList(text, i + 1, Append(acc, Tok(text, i)))
  ELSE IF Tok(text, i) = "]"
    THEN [DecodeError EXCEPT !.ok = TRUE, !.next = i + 1, !.data = acc]
  ELSE DecodeError

ParseBucket(text, i) ==
  IF Tok(text, i) = "{" /\ Tok(text, i + 1) = "data" /\ Tok(text, i + 2) = "["
    THEN LET l == ParseList(text, i + 3, <<>>)
         IN  IF /\ l.ok
                /\ Tok(text, l.next) = "meta"
                /\ Tok(text, l.next + 1) \in Metas
                /\ Tok(text, l.next + 2) = "}"
               THEN [DecodeError EXCEPT
                       !.ok = TRUE, !.next = l.next + 3,
                       !.bucket = Bucket(l.data, Tok(text, l.next + 1))]
               ELSE DecodeError
    ELSE DecodeError

RECURSIVE ParseItems(_, _, _)
ParseItems(text, i, acc) ==
  IF Tok(text, i) = "}"
    THEN IF i = Len(text)
           THEN [DecodeError EXCEPT !.ok = TRUE, !.value = acc]
           ELSE DecodeError
  ELSE IF Tok(text, i) \in TypeSet
    THEN LET b == ParseBucket(text, i + 1)
         IN  IF b.ok
               THEN ParseItems(text, b.next,
                               [acc EXCEPT ![Tok(text, i)] = b.bucket])
               ELSE DecodeError
  ELSE DecodeError

json_load(text) ==
  IF Tok(text, 1) = "{" THEN ParseItems(text, 2, EmptyDict) ELSE DecodeError

---------------------------------------------------------------------------
(* The functions of main.py *)

\* check_api_key, were it to let a request through without the key.
check_api_key_Skipped == TRUE

check_api_key == OURA_API_KEY

\* fetch_oura_data for one metric type, given the upstream's answer.
fetch_oura_data(answer) ==
  IF ~OURA_API_KEY THEN [raised |-> TRUE, value |-> NoBucket]
  ELSE IF answer.kind = "error" THEN [raised |-> TRUE, value |-> NoBucket]
  ELSE [raised |-> FALSE, value |-> answer.json]

\* Python's truth value of a parsed JSON object: {} is falsy.
Truthy(json) == json.present

\* "oura_data is None" in place of "not oura_data".
NoData_IsNone(d) == FALSE

\* "not oura_data" for a dict keyed by metric type.
NoData(d) == \A t \in TypeSet : ~d[t].present

\* One pass of the fetch loop without the except clause.
Collect_NoExcept(nd, t, answer) ==
  LET r == fetch_oura_data(answer)
  IN  IF r.raised THEN [new_data |-> nd, raised |-> TRUE]
      ELSE IF Truthy(r.value)
        THEN [new_data |-> [nd EXCEPT ![t] = r.value], raised |-> FALSE]
      ELSE [new_data |-> nd, raised |-> FALSE]

\* One pass of the fetch loop (lines 175-181): the except clause catches
\* whatever fetch_oura_data raises, so the pass itself never raises.
Collect(nd, t, answer) ==
  LET r == fetch_oura_data(answer)
  IN  IF r.raised THEN [new_data |-> nd, raised |-> FALSE]
      ELSE IF Truthy(r.value)
        THEN [new_data |-> [nd EXCEPT ![t] = r.value], raised |-> FALSE]
      ELSE [new_data |-> nd, raised |-> FALSE]

\* The loop of fetch_and_store_data over data_types, from index i on;
\* `trace` lists the types fetch_oura_data was called for.
RECURSIVE FetchLoop(_, _, _, _)
FetchLoop(upstream, i, nd, trace) ==
  IF i > Len(data_types)
    THEN [new_data |-> nd, calls |-> trace, raised |-> FALSE]
    ELSE LET t == data_types[i]
             c == Collect(nd, t, upstream[t])
         IN  IF c.raised
               THEN [new_data |-> c.new_data, calls |-> Append(trace, t),
                     raised |-> TRUE]
               ELSE FetchLoop(upstream, i + 1, c.new_data, Append(trace, t))

\* store_data, were its except clause to log the IOError and not re-raise.
store_data_Swallowed(file, data, disk) ==
  LET text == json_dump(data)
  IN  IF disk.result = "open_fail" THEN [raised |-> FALSE, file |-> file]
      ELSE IF disk.result = "write_fail"
        THEN [raised |-> FALSE,
              file |-> File(SubSeq(text, 1, Min(disk.cut, Len(text) - 1)))]
      ELSE [raised |-> FALSE, file |-> File(text)]

\* store_data in one piece: the open may fail, the write may fail after
\* `cut` tokens (and never all of them) have reached the file.
store_data(file, data, disk) ==
  LET text == json_dump(data)
  IN  IF disk.result = "open_fail" THEN [raised |-> TRUE, file |-> file]
      ELSE IF disk.result = "write_fail"
        THEN [raised |-> TRUE,
              file |-> File(SubSeq(text, 1, Min(disk.cut, Len(text) - 1)))]
      ELSE [raised |-> FALSE, file |-> File(text)]

\* load_data, were a JSONDecodeError to give {} as a missing file does.
load_data_Lenient(file) ==
  IF ~file.exists THEN [raised |-> FALSE, value |-> EmptyDict]
  ELSE LET j == json_load(file.text)
       IN  IF j.ok THEN [raised |-> FALSE, value |-> j.value]
           ELSE [raised |-> FALSE, value |-> EmptyDict]

load_data(file) ==
  IF ~file.exists THEN [raised |-> FALSE, value |-> EmptyDict]
  ELSE LET j == json_load(file.text)
       IN  IF j.ok THEN [raised |-> FALSE, value |-> j.value]
           ELSE [raised |-> TRUE, value |-> EmptyDict]

\* The pass, were it to assign the incoming bucket whether or not the key
\* is there.
MergeOne_Replace(existing, t, data) == [existing EXCEPT ![t] = data]

\* The pass, were it to take the other fields from the incoming bucket.
MergeOne_LastWins(existing, t, data) ==
  IF ~existing[t].present THEN [existing EXCEPT ![t] = data]
  ELSE [existing EXCEPT ![t] = Bucket(@.data \o data.data, data.meta)]

\* One pass of update_data's loop, for a key t of new_data.
MergeOne(existing, t, data) ==
  IF ~existing[t].present THEN [existing EXCEPT ![t] = data]
  ELSE [existing EXCEPT ![t].data = @ \o data.data]

\* The loop, were update_data to store new_data in place of the merge.
UpdateLoop_Overwrite(existing, nd, i) == nd

\* update_data's loop over new_data.items(), from index i of data_types on.
RECURSIVE UpdateLoop(_, _, _)
UpdateLoop(existing, nd, i) ==
  IF i > Len(data_types) THEN existing
  ELSE LET t == data_types[i]
       IN  UpdateLoop(IF nd[t].present THEN MergeOne(existing, t, nd[t])
                      ELSE existing,
                      nd, i + 1)

update_data(file, nd, disk) ==
  LET l == load_data(file)
  IN  IF l.raised
        THEN [raised |-> TRUE, error |-> "JSONDecodeError", file |-> file,
              existing |-> EmptyDict, calls |-> <<"load_data">>]
        ELSE LET merged == UpdateLoop(l.value, nd, 1)
                 s == store_data(file, merged, disk)
             IN  [raised |-> s.raised, error |-> "IOError", file |-> s.file,
                  existing |-> merged, calls |-> <<"load_data", "store_data">>]

NoStamp == [exists |-> FALSE, text |-> ""]

Stamp(now) == [exists |-> TRUE, text |-> now]

store_last_updated_time(file, now, disk) ==
  IF disk = "open_fail" THEN [raised |-> TRUE, file |-> file]
  ELSE [raised |-> FALSE, file |-> Stamp(now)]

load_last_updated_time(file) == IF file.exists THEN file.text ELSE "Never"

\* The sheets download_archive writes: each type's data['data'].
Sheets(d) ==
  [t \in TypeSet |-> IF d[t].present THEN Bucket(d[t].data, "none")
                     ELSE NoBucket]

\* A file object's write at position pos (a gap is filled with NUL).
WriteAt(text, pos, chunk) ==
  LET n == IF Len(text) > pos + Len(chunk) THEN Len(text)
           ELSE pos + Len(chunk)
  IN  [i \in 1..n |-> IF i > pos /\ i <= pos + Len(chunk) THEN chunk[i - pos]
                      ELSE IF i <= Len(text) THEN text[i] ELSE "NUL"]

---------------------------------------------------------------------------
(* The state after start-up and the steps of a request *)

\* The disk's behaviour during store_data.
DiskOutcomes ==
  { [result |-> "ok",         cut |-> 0],
    [result |-> "open_fail",  cut |-> 0],
    [result |-> "write_fail", cut |-> 0],
    [result |-> "write_fail", cut |-> ChunkSize] }

StampOutcomes == {"ok", "open_fail"}

\* What an earlier run of the program may have left in /tmp.
LeftBehind ==
  { [data |-> NoFile, stamp |-> NoStamp],
    [data |-> File(json_dump(EmptyDict)), stamp |-> Stamp("t1")],
    [data |-> File(json_dump([EmptyDict EXCEPT
                                !["daily_sleep"] = Bucket(<<"r1">>, "m1")])),
     stamp |-> Stamp("t1")] }

Init ==
  /\ OURA_API_KEY \in BOOLEAN
  /\ \E left \in LeftBehind :
       DATA_FILE = left.data /\ LAST_UPDATED_FILE = left.stamp
  /\ fetched = [p \in Threads |-> NoAnswers]
  /\ pc = [p \in Threads |-> "idle"]
  /\ route = [p \in Threads |-> "none"]
  /\ new_data = [p \in Threads |-> EmptyDict]
  /\ existing_data = [p \in Threads |-> EmptyDict]
  /\ offset = [p \in Threads |-> 0]
  /\ resp = [p \in Threads |-> NoResponse]
  /\ calls = [p \in Threads |-> <<>>]
  /\ started = 0
  /\ overlapped = FALSE

\* The store the next refresh would extend, were it to run now.
Stored == load_data(DATA_FILE).value

RECURSIVE CountRecords(_, _)
CountRecords(d, i) ==
  IF i > Len(data_types) THEN 0
  ELSE Len(d[data_types[i]].data) + CountRecords(d, i + 1)

\* The bound of the model: the merged store stays within MaxStored.
Fits(stored, nd) ==
  CountRecords(stored, 1) + CountRecords(nd, 1) <= MaxStored

\* A handler returns `r`: its locals are gone.
Reply(p, r) ==
  /\ resp' = [resp EXCEPT ![p] = r]
  /\ pc' = [pc EXCEPT ![p] = "idle"]
  /\ fetched' = [fetched EXCEPT ![p] = NoAnswers]
  /\ new_data' = [new_data EXCEPT ![p] = EmptyDict]
  /\ existing_data' = [existing_data EXCEPT ![p] = EmptyDict]
  /\ offset' = [offset EXCEPT ![p] = 0]

NoKeyReply(p) ==
  /\ Reply(p, Response(500, "OURA_API_KEY is not set", EmptyDict, ""))
  /\ calls' = [calls EXCEPT ![p] = <<>>]

\* GET / (lines 33-50).
display_data(p) ==
  /\ pc[p] = "idle"
  /\ route' = [route EXCEPT ![p] = "/"]
  /\ IF ~check_api_key THEN NoKeyReply(p)
     ELSE LET l == load_data(DATA_FILE)
          IN  IF l.raised
                THEN /\ Reply(p, Response(500, "JSONDecodeError", EmptyDict, ""))
                     /\ calls' = [calls EXCEPT ![p] = <<"load_data">>]
              ELSE IF NoData(l.value)
                THEN /\ Reply(p, Response(302, "fetch_initial_data", EmptyDict, ""))
                     /\ calls' = [calls EXCEPT ![p] = <<"load_data">>]
              ELSE /\ Reply(p, Response(200, "template.html", l.value,
                                load_last_updated_time(LAST_UPDATED_FILE)))
                   /\ calls' = [calls EXCEPT
                                  ![p] = <<"load_data", "load_last_updated_time">>]
  /\ UNCHANGED <<OURA_API_KEY, DATA_FILE, LAST_UPDATED_FILE, overlapped>>

\* GET /download_archive (lines 80-107).
download_archive(p) ==
  /\ pc[p] = "idle"
  /\ route' = [route EXCEPT ![p] = "/download_archive"]
  /\ IF ~check_api_key THEN NoKeyReply(p)
     ELSE LET l == load_data(DATA_FILE)
          IN  /\ calls' = [calls EXCEPT ![p] = <<"load_data">>]
              /\ IF l.raised
                   THEN Reply(p, Response(500, "JSONDecodeError", EmptyDict, ""))
                 ELSE IF NoData(l.value)
                   THEN Reply(p, Response(404, "No data available for download",
                                          EmptyDict, ""))
                 ELSE Reply(p, Response(200, "oura_data_archive.xlsx",
                                        Sheets(l.value), ""))
  /\ UNCHANGED <<OURA_API_KEY, DATA_FILE, LAST_UPDATED_FILE, overlapped>>

\* A refresh route up to the end of the fetch loop (lines 52-59 or 66-73,
\* then 165-181), the upstream answering each type from `answers`.
Refresh(p, r, answers) ==
  /\ pc[p] = "idle"
  /\ route' = [route EXCEPT ![p] = r]
  /\ IF ~check_api_key
       THEN NoKeyReply(p)
       ELSE LET stored == Stored
            IN  \E upstream \in [TypeSet -> answers] :
                  LET f == FetchLoop(upstream, 1, EmptyDict, <<>>)
                  IN  /\ Fits(stored, f.new_data)
                      /\ calls' = [calls EXCEPT ![p] = f.calls]
                      /\ IF f.raised
                           THEN Reply(p, Response(500, "RequestException",
                                                  EmptyDict, ""))
                           ELSE /\ fetched' = [fetched EXCEPT ![p] = upstream]
                                /\ new_data' = [new_data EXCEPT
                                                  ![p] = f.new_data]
                                /\ pc' = [pc EXCEPT ![p] = "update_data"]
                                /\ resp' = [resp EXCEPT ![p] = NoResponse]
                                /\ UNCHANGED <<existing_data, offset>>
  /\ UNCHANGED <<OURA_API_KEY, DATA_FILE, LAST_UPDATED_FILE, overlapped>>

\* GET /update (lines 52-64).
manual_update(p) == Refresh(p, "/update", UpstreamAnswers)

\* GET /fetch_initial_data (lines 66-78).
fetch_initial_data(p) == Refresh(p, "/fetch_initial_data", UpstreamAnswers)

\* update_data(new_data) (line 183), run without interruption.
update_data_call(p) ==
  /\ pc[p] = "update_data"
  /\ \E disk \in DiskOutcomes :
       LET u == update_data(DATA_FILE, new_data[p], disk)
       IN  /\ DATA_FILE' = u.file
           /\ calls' = [calls EXCEPT ![p] = @ \o u.calls]
           /\ IF u.raised
                THEN Reply(p, Response(500, u.error, EmptyDict, ""))
                ELSE /\ pc' = [pc EXCEPT ![p] = "store_last_updated_time"]
                     /\ existing_data' = [existing_data EXCEPT ![p] = u.existing]
                     /\ UNCHANGED <<resp, fetched, new_data, offset>>
  /\ UNCHANGED <<OURA_API_KEY, LAST_UPDATED_FILE, route, started, overlapped>>

\* store_last_updated_time() (line 184) and the handler's redirect.
store_last_updated_time_call(p) ==
  /\ pc[p] = "store_last_updated_time"
  /\ \E now \in Stamps, disk \in StampOutcomes :
       LET s == store_last_updated_time(LAST_UPDATED_FILE, now, disk)
       IN  /\ LAST_UPDATED_FILE' = s.file
           /\ IF s.raised
                THEN Reply(p, Response(500, "IOError", EmptyDict, ""))
                ELSE Reply(p, Response(302, "display_data", EmptyDict, ""))
  /\ calls' = [calls EXCEPT ![p] = Append(@, "store_last_updated_time")]
  /\ UNCHANGED <<OURA_API_KEY, DATA_FILE, route, started, overlapped>>

\* Requests served one after the other, by thread 1.
Next ==
  \/ display_data(1) /\ UNCHANGED started
  \/ download_archive(1) /\ UNCHANGED started
  \/ manual_update(1) /\ UNCHANGED started
  \/ fetch_initial_data(1) /\ UNCHANGED started
  \/ update_data_call(1)
  \/ store_last_updated_time_call(1)

Spec == Init /\ [][Next]_vars

---------------------------------------------------------------------------
(* A browser that follows every redirect *)

url_for(endpoint) ==
  IF endpoint = "fetch_initial_data" THEN "/fetch_initial_data" ELSE "/"

\* The browser may ask for r: after a redirect it asks for its target.
Follows(r) == resp[1].code = 302 => r = url_for(resp[1].what)

NextLive ==
  \/ Follows("/") /\ display_data(1) /\ UNCHANGED started
  \/ Follows("/download_archive") /\ download_archive(1) /\ UNCHANGED started
  \/ Follows("/update") /\ manual_update(1) /\ UNCHANGED started
  \/ Follows("/fetch_initial_data") /\ fetch_initial_data(1)
       /\ UNCHANGED started
  \/ update_data_call(1)
  \/ store_last_updated_time_call(1)

\* The browser asks for the target of the redirect it holds.
FollowRedirect ==
  /\ pc[1] = "idle"
  /\ resp[1].code = 302
  /\ route' = [route EXCEPT ![1] = url_for(resp[1].what)]

\* The handler of a refresh moves on from the call it is at: to the next
\* call or to its return.
Proceeds ==
  /\ pc[1] \in {"update_data", "store_last_updated_time"}
  /\ \E l \in {"store_last_updated_time", "idle"} \ {pc[1]} :
       pc' = [pc EXCEPT ![1] = l]

\* The browser follows every redirect and the server runs every handler to
\* its end; a browser holding a page, a file or an error may stay there.
SpecLive ==
  /\ Init
  /\ [][NextLive]_vars
  /\ WF_route(FollowRedirect)
  /\ WF_pc(Proceeds)

---------------------------------------------------------------------------
(* Requests served by two threads at once *)

\* Thread q is inside update_data: it has loaded the store and has not yet
\* closed the file it writes.
InUpdate(q) == pc[q] \in {"store_data", "writing"}

\* The server accepts one more request (the bound of SpecConc).
Accept ==
  /\ started < MaxRequests
  /\ started' = started + 1

\* GET /update under SpecConc.
conc_update(p) == Refresh(p, "/update", ConcAnswers)

\* update_data up to the call of store_data (lines 157-162).
update_data_load(p) ==
  /\ pc[p] = "update_data"
  /\ LET l == load_data(DATA_FILE)
     IN  /\ calls' = [calls EXCEPT ![p] = Append(@, "load_data")]
         /\ IF l.raised
              THEN Reply(p, Response(500, "JSONDecodeError", EmptyDict, ""))
              ELSE /\ existing_data' = [existing_data EXCEPT
                                          ![p] = UpdateLoop(l.value, new_data[p], 1)]
                   /\ pc' = [pc EXCEPT ![p] = "store_data"]
                   /\ UNCHANGED <<resp, fetched, new_data, offset>>
  /\ overlapped' = (overlapped \/ \E q \in Threads \ {p} : InUpdate(q))
  /\ UNCHANGED <<OURA_API_KEY, DATA_FILE, LAST_UPDATED_FILE, route, started>>

\* open(DATA_FILE, 'w') (line 133): the file is truncated.
store_data_open(p) ==
  /\ pc[p] = "store_data"
  /\ DATA_FILE' = File(<<>>)
  /\ offset' = [offset EXCEPT ![p] = 0]
  /\ pc' = [pc EXCEPT ![p] = "writing"]
  /\ calls' = [calls EXCEPT ![p] = Append(@, "store_data")]
  /\ UNCHANGED <<OURA_API_KEY, LAST_UPDATED_FILE, route, fetched, new_data,
                 existing_data, resp, started, overlapped>>

\* json.dump(data, f) (line 134): the file object's buffer is full and is
\* written out at the object's position.
store_data_write(p) ==
  /\ pc[p] = "writing"
  /\ LET text == json_dump(existing_data[p])
     IN  /\ Len(text) - offset[p] > ChunkSize
         /\ DATA_FILE' = File(WriteAt(DATA_FILE.text, offset[p],
                               SubSeq(text, offset[p] + 1, offset[p] + ChunkSize)))
         /\ offset' = [offset EXCEPT ![p] = @ + ChunkSize]
  /\ UNCHANGED <<OURA_API_KEY, LAST_UPDATED_FILE, pc, route, fetched, new_data,
                 existing_data, resp, calls, started, overlapped>>

\* The end of the with block (line 134): the rest is written out and the
\* file is closed.
store_data_close(p) ==
  /\ pc[p] = "writing"
  /\ LET text == json_dump(existing_data[p])
     IN  /\ Len(text) - offset[p] <= ChunkSize
         /\ DATA_FILE' = File(WriteAt(DATA_FILE.text, offset[p],
                               SubSeq(text, offset[p] + 1, Len(text))))
         /\ offset' = [offset EXCEPT ![p] = Len(text)]
  /\ pc' = [pc EXCEPT ![p] = "store_last_updated_time"]
  /\ UNCHANGED <<OURA_API_KEY, LAST_UPDATED_FILE, route, fetched, new_data,
                 existing_data, resp, calls, started, overlapped>>

NextConc ==
  \E p \in Threads :
    \/ Accept /\ display_data(p)
    \/ Accept /\ download_archive(p)
    \/ Accept /\ conc_update(p)
    \/ update_data_load(p)
    \/ store_data_open(p)
    \/ store_data_write(p)
    \/ store_data_close(p)
    \/ store_last_updated_time_call(p)

SpecConc == Init /\ [][NextConc]_vars

---------------------------------------------------------------------------
(* Notions the properties are stated with *)

IsPrefix(s, t) == Len(s) <= Len(t) /\ SubSeq(t, 1, Len(s)) = s

\* The store a load of DATA_FILE gives after the step.
StoredNext == load_data(DATA_FILE').value

Loadable(file) == ~load_data(file).raised

\* A text that is a whole JSON document: not empty, closed by "}", with as
\* many closing as opening brackets.
Whole(text) ==
  /\ Len(text) > 0
  /\ text[Len(text)] = "}"
  /\ Cardinality({i \in 1..Len(text) : text[i] \in {"{", "["}})
       = Cardinality({i \in 1..Len(text) : text[i] \in {"}", "]"}})

\* The file is there and holds an empty, truncated or half-written text.
HalfWritten(file) == file.exists /\ ~Whole(file.text)

RefreshRoutes == {"/update", "/fetch_initial_data"}

ReadRoutes == {"/", "/download_archive"}

\* The step is thread 1 serving one of the read routes.
ReadStep(r) == pc[1] = "idle" /\ pc'[1] = "idle" /\ route'[1] = r

\* The step is thread 1 running update_data to its end, the store saved.
SavedStep == pc[1] = "update_data" /\ pc'[1] = "store_last_updated_time"

---------------------------------------------------------------------------
(* C1 *)

---------------------------------------------------------------------------
(* C2 *)

\* C2: the merge is the reference merge.  When update_data has run to its
\* end, for each metric type of new_data: if the store lacked the type the
\* incoming bucket is there verbatim, else the bucket's data is the old
\* data followed by the incoming data and its other fields are the old
\* ones; every type not in new_data is as it was.
C2_MergeIsReference ==
  [][ SavedStep =>
        \A t \in TypeSet :
          LET old == Stored[t]
              inc == new_data[1][t]
              out == existing_data'[1][t]
          IN  IF ~inc.present THEN out = old
              ELSE IF ~old.present THEN out = inc
              ELSE /\ out.present
                   /\ out.data = old.data \o inc.data
                   /\ out.meta = old.meta ]_vars

\* An incoming bucket was appended to a bucket with other metadata.
C2_Witness ==
  /\ pc[1] = "store_last_updated_time"
  /\ \E t \in TypeSet :
       /\ new_data[1][t].present
       /\ existing_data[1][t].meta # new_data[1][t].meta
       /\ Len(existing_data[1][t].data) > Len(new_data[1][t].data)
  /\ \E t \in TypeSet : ~new_data[1][t].present /\ existing_data[1][t].present

---------------------------------------------------------------------------
(* C3 *)

\* The fetch loop has run: fetch_oura_data was called for the three types
\* in order and new_data holds exactly the non-empty answers.
LoopRanThrough(p) ==
  /\ Len(calls[p]) >= Len(data_types)
  /\ SubSeq(calls[p], 1, Len(data_types)) = data_types
  /\ \A t \in TypeSet :
       new_data[p][t] = IF fetched[p][t].kind = "ok" /\ fetched[p][t].json.present
                          THEN fetched[p][t].json
                          ELSE NoBucket

\* C3 as claimed: no fetch failure makes the refresh raise, all three types
\* are fetched, and after the save the store holds every type whose fetch
\* succeeded, merged in, the types whose fetch failed being unchanged.
C3_EverySuccessMergedIn ==
  /\ [](\A p \in Threads : resp[p].what # "RequestException")
  /\ [][ SavedStep =>
           \A t \in TypeSet :
             IF fetched[1][t].kind = "ok"
               THEN /\ StoredNext[t].present
                    /\ StoredNext[t].data = Stored[t].data \o fetched[1][t].json.data
               ELSE StoredNext[t] = Stored[t] ]_vars

\* C3, amended: no fetch failure makes the refresh raise, all three types
\* are fetched whatever the earlier ones did, and after the save the store
\* holds exactly the types fetched with a non-empty payload, merged in; the
\* buckets of the types that failed or came back empty are unchanged.
C3_PartialFailureTolerated ==
  /\ [](\A p \in Threads :
          /\ resp[p].what # "RequestException"
          /\ pc[p] \in {"update_data", "store_last_updated_time"}
               => LoopRanThrough(p))
  /\ [][ SavedStep =>
           \A t \in TypeSet :
             IF fetched[1][t].kind = "ok" /\ fetched[1][t].json.present
               THEN /\ StoredNext[t].present
                    /\ StoredNext[t].data = Stored[t].data \o fetched[1][t].json.data
               ELSE StoredNext[t] = Stored[t] ]_vars

\* daily_sleep failed, the other two succeeded, and the store was saved with
\* the two merged in beside the sleep bucket it had.
C3_Witness ==
  /\ pc[1] = "store_last_updated_time"
  /\ fetched[1]["daily_activity"].json.present
  /\ fetched[1]["daily_readiness"].json.present
  /\ fetched[1]["daily_sleep"].kind = "error"
  /\ Stored["daily_activity"].present
  /\ Stored["daily_readiness"].present
  /\ Stored["daily_sleep"].present

---------------------------------------------------------------------------
(* C4 *)

\* C4: the steps of a refresh are ordered.  LAST_UPDATED_FILE is written
\* only by a refresh whose update_data has saved the merged store (an empty
\* new_data included); update_data leaves LAST_UPDATED_FILE alone; when the
\* store cannot be loaded or saved the handler answers 500 and goes no
\* further, so LAST_UPDATED_FILE keeps its value.
C4_PersistBeforeStamp ==
  [][ /\ LAST_UPDATED_FILE' # LAST_UPDATED_FILE =>
           /\ pc[1] = "store_last_updated_time"
           /\ DATA_FILE = File(json_dump(existing_data[1]))
           /\ DATA_FILE' = DATA_FILE
      /\ pc[1] = "update_data" =>
           /\ LAST_UPDATED_FILE' = LAST_UPDATED_FILE
           /\ IF pc'[1] = "store_last_updated_time"
                THEN /\ Loadable(DATA_FILE)
                     /\ DATA_FILE' = File(json_dump(existing_data'[1]))
                ELSE /\ pc'[1] = "idle"
                     /\ resp'[1].code = 500
                     /\ resp'[1].what \in {"JSONDecodeError", "IOError"}
           /\ (~Loadable(DATA_FILE) \/ ~Loadable(DATA_FILE')) => pc'[1] = "idle"
    ]_vars

\* Every fetch failed: the refresh saved the empty mapping, then stamped.
C4_Witness ==
  /\ pc[1] = "idle"
  /\ resp[1] = Response(302, "display_data", EmptyDict, "")
  /\ DATA_FILE = File(<<"{", "}">>)
  /\ LAST_UPDATED_FILE = Stamp("t2")
  /\ calls[1] = data_types \o <<"load_data", "store_data",
                                "store_last_updated_time">>

---------------------------------------------------------------------------
(* C5 *)

\* C5: without the API key every request is answered 500 at once: no
\* fetch, no load or save of the store, no read or write of the stamp, and
\* both files as they were.
C5_CredentialFailFast ==
  [][ ~OURA_API_KEY =>
        /\ DATA_FILE' = DATA_FILE
        /\ LAST_UPDATED_FILE' = LAST_UPDATED_FILE
        /\ pc'[1] = "idle"
        /\ resp'[1] = Response(500, "OURA_API_KEY is not set", EmptyDict, "")
        /\ calls'[1] = <<>> ]_vars

\* A refresh was asked for without the key, the store of an earlier run
\* being there.
C5_Witness ==
  /\ ~OURA_API_KEY
  /\ route[1] = "/fetch_initial_data"
  /\ resp[1].code = 500
  /\ DATA_FILE.exists
  /\ ~NoData(Stored)

---------------------------------------------------------------------------
(* C7 *)

\* C7: with the key set, GET / changes neither file; when DATA_FILE is
\* missing or holds the empty mapping it redirects to fetch_initial_data and
\* renders nothing; when DATA_FILE holds a store that is not empty it
\* renders that store with the stamp (or "Never") and does not redirect.
C7_ViewRoute ==
  [][ OURA_API_KEY /\ ReadStep("/") =>
        /\ DATA_FILE' = DATA_FILE
        /\ LAST_UPDATED_FILE' = LAST_UPDATED_FILE
        /\ IF ~DATA_FILE.exists \/ DATA_FILE.text = <<"{", "}">>
             THEN resp'[1] = Response(302, "fetch_initial_data", EmptyDict, "")
             ELSE Loadable(DATA_FILE) =>
                    resp'[1] = Response(200, "template.html", Stored,
                                        IF LAST_UPDATED_FILE.exists
                                          THEN LAST_UPDATED_FILE.text
                                          ELSE "Never") ]_vars

\* GET / found the empty mapping a refresh had saved and redirected.
C7_Witness ==
  /\ OURA_API_KEY
  /\ pc[1] = "idle"
  /\ route[1] = "/"
  /\ resp[1] = Response(302, "fetch_initial_data", EmptyDict, "")
  /\ DATA_FILE = File(<<"{", "}">>)
  /\ LAST_UPDATED_FILE = Stamp("t2")

---------------------------------------------------------------------------
(* C8 *)

\* The step is one in which thread 1 calls load_data.
LoadStep == (\E r \in ReadRoutes : ReadStep(r)) \/ pc[1] = "update_data"

\* C8: with the key set, a load of a missing DATA_FILE gives the empty
\* mapping and no error (GET / redirects, the archive answers 404, a
\* refresh merges into the empty mapping); a load of a DATA_FILE that is
\* there and is no whole JSON document fails: the route answers 500 and a
\* refresh stops without writing DATA_FILE.
C8_LoadStoreOutcomes ==
  [][ OURA_API_KEY /\ LoadStep =>
        /\ ~DATA_FILE.exists =>
             /\ resp'[1].what # "JSONDecodeError"
             /\ ReadStep("/") =>
                  resp'[1] = Response(302, "fetch_initial_data", EmptyDict, "")
             /\ ReadStep("/download_archive") => resp'[1].code = 404
             /\ SavedStep => existing_data'[1] = new_data[1]
        /\ HalfWritten(DATA_FILE) =>
             /\ pc'[1] = "idle"
             /\ resp'[1] = Response(500, "JSONDecodeError", EmptyDict, "")
             /\ DATA_FILE' = DATA_FILE
             /\ LAST_UPDATED_FILE' = LAST_UPDATED_FILE ]_vars

\* A refresh found a half-written DATA_FILE and failed without writing it.
C8_Witness ==
  /\ route[1] = "/update"
  /\ pc[1] = "idle"
  /\ resp[1].what = "JSONDecodeError"
  /\ HalfWritten(DATA_FILE)
  /\ Len(DATA_FILE.text) > 0

---------------------------------------------------------------------------
(* C9 *)

\* GET / has just redirected the browser to fetch_initial_data.
ChainStarts ==
  /\ pc[1] = "idle"
  /\ route[1] = "/"
  /\ resp[1] = Response(302, "fetch_initial_data", EmptyDict, "")

\* The browser holds an answer that is no redirect.
ChainEnds == pc[1] = "idle" /\ resp[1].code \in {200, 404, 500}

\* C9: a browser that GET / redirected to fetch_initial_data and that
\* follows every redirect comes to an answer that is no redirect, whatever
\* the upstream answers.
C9_RedirectChainEnds == ChainStarts ~> ChainEnds

---------------------------------------------------------------------------
(* C6 *)

\* C6: a route that loads the store while another thread is inside
\* store_data reads a whole document: it never fails to decode it.
C6_SaveIsAtomic ==
  \A p \in Threads : \A q \in Threads \ {p} :
    (pc[q] = "writing" /\ pc[p] = "idle" /\ route[p] \in ReadRoutes)
      => resp[p].what # "JSONDecodeError"

---------------------------------------------------------------------------
(* C10 *)

\* Both threads have run update_data to its end; new_data is still at hand.
BothSaved == \A p \in Threads : pc[p] = "store_last_updated_time"

\* C10 as claimed: when two refreshes have both saved, in whatever order
\* their steps ran, every record either of them fetched is in the store.
C10_NoLostUpdate ==
  BothSaved =>
    \A p \in Threads : \A t \in TypeSet :
      new_data[p][t].present =>
        /\ Stored[t].present
        /\ \A i \in 1..Len(new_data[p][t].data) :
             \E j \in 1..Len(Stored[t].data) :
               Stored[t].data[j] = new_data[p][t].data[i]

\* C10, amended: when two refreshes have both saved and neither loaded the
\* store while the other was between its load and the end of its save, the
\* store ends, type by type, with what the one fetched followed by what the
\* other fetched.
C10_NoLostUpdateSerialized ==
  (BothSaved /\ ~overlapped) =>
    \E p \in Threads : \E q \in Threads \ {p} :
      \A t \in TypeSet :
        LET a == new_data[p][t].data
            b == new_data[q][t].data
            d == Stored[t].data
        IN  /\ (new_data[p][t].present \/ new_data[q][t].present)
                 => Stored[t].present
            /\ Len(d) >= Len(a) + Len(b)
            /\ SubSeq(d, Len(d) - Len(b) + 1, Len(d)) = b
            /\ SubSeq(d, Len(d) - Len(b) - Len(a) + 1, Len(d) - Len(b)) = a

\* Two refreshes that did not overlap have both saved a bucket of the same
\* type.
C10_Witness ==
  /\ BothSaved
  /\ ~overlapped
  /\ \A p \in Threads : new_data[p]["daily_activity"].present
  /\ Len(Stored["daily_activity"].data) >= 2

=============================================================================
